---------------------------- MODULE Spec2Model ----------------------------
(***************************************************************************)
(* A model of the node layer of the sigourney audio graph                  *)
(* (src/audio/proc.go): the fan-out splitter Dup/Output, the envelope      *)
(* generator Env and the square oscillator Square.                         *)
(*                                                                         *)
(* Samples are float64 in the program.  The model computes in exact        *)
(* arithmetic on a grid: levels are integers in units of 1/Unit, phases    *)
(* and frequencies are integers in Hz.  Floating-point rounding is not     *)
(* modelled.                                                               *)
(***************************************************************************)
EXTENDS Integers, Sequences, FiniteSets, TLC

(***************************************************************************)
(* Configuration of the audio package (declared outside proc.go).          *)
(***************************************************************************)
\* Block size: the length of every buffer handed to Process.
nSamples == 3
\* Sample rate in Hz, scaled down to three octaves above 440 Hz so that the
\* pitches of the model's grid divide it.
waveHz == 3520

(***************************************************************************)
(* Bounds of the model.                                                    *)
(***************************************************************************)
\* Output handles one Dup hands out over a run.
MaxOutputs == 2
\* Dup.Tick() calls over a run.
MaxTicks == 2
\* Ticks of the fan-out comparison.
MaxFanTicks == 3
\* Output handles of the Dup whose registrations are followed.
MaxHandles == 3
\* The grid of levels: the level 1.0 is Unit steps of the grid.
Unit == 5
\* Samples of an attack/decay run of Env that are followed.
MaxEnvSamples == 7
\* Square.Process calls over a run.
MaxSqCalls == 3
\* The grid of random draws: rand.Float64() returns f / RandDen for an f in
\* 0..RandDen-1.
RandDen == 2

Idx == 1..nSamples

\* make([]Sample, nSamples): a zeroed block.
Zeros == [i \in Idx |-> 0]

\* The nil slice.
Nil == <<>>

(***************************************************************************)
(* The upstream node of a Dup: any stateful Processor.  It carries an      *)
(* accumulator across calls (as an oscillator carries its phase); each     *)
(* call fills the buffer it is given, in place, with the next samples and  *)
(* advances the accumulator by the buffer's length.  calls counts the      *)
(* executions of its Process since the last Tick() and out is the block    *)
(* the last of them produced.                                              *)
(***************************************************************************)
Nodes == {1, 2}

NewNode == [acc |-> 0, calls |-> 0, out |-> Nil]

\* Sample k (counted from the node's construction) of node n.
SrcSample(n, k) == 100 * n + k

\* n.Process(p) on node state st: the new state and the contents of p.
SrcProcess(st, n, p) ==
    LET buf == [i \in 1..Len(p) |-> SrcSample(n, st.acc + i)]
    IN  [st  |-> [acc |-> st.acc + Len(p), calls |-> st.calls + 1,
                  out |-> buf],
         buf |-> buf]

(***************************************************************************)
(* Dup and Output (proc.go, lines 250-307).  A Dup is the record           *)
(* [src, outs, buf, done]; outs is the slice of registered Output handles. *)
(***************************************************************************)
\* copy(dst, src) of Go: the first min(len) elements.
Copy(dst, src) ==
    [i \in 1..Len(dst) |-> IF i <= Len(src) THEN src[i] ELSE dst[i]]

NewDup(src) == [src |-> src, outs |-> <<>>, buf |-> Nil, done |-> FALSE]

\* Mutant of DupTick: the flag is not cleared.
DupTickNoClear(d) == d

\* Mutant of DupTick: the scratch buffer is released with the flag.
DupTickDropBuf(d) == [d EXCEPT !.done = FALSE, !.buf = Nil]

DupTick(d) == [d EXCEPT !.done = FALSE]

\* Mutant of DupSetSource: rebinding clears the flag.
DupSetSourceReset(d, p) == [d EXCEPT !.src = p, !.done = FALSE]

DupSetSource(d, p) == [d EXCEPT !.src = p]

\* Mutant of DupOutput: the scratch buffer is not allocated.
DupOutputNoAlloc(d, o) == [d EXCEPT !.outs = Append(d.outs, o)]

\* d.Output(), o being the handle it allocates.
DupOutput(d, o) ==
    LET outs == Append(d.outs, o)
    IN  [d EXCEPT !.outs = outs,
                  !.buf = IF Len(outs) > 1 /\ d.buf = Nil THEN Zeros ELSE d.buf]

\* Mutant of OutputProcess: the scratch path does not set the flag.
OutputProcessNoMark(d, nd, p) ==
    IF Len(d.outs) = 1
    THEN IF ~d.done
         THEN LET r == SrcProcess(nd[d.src], d.src, p)
              IN  [d  |-> [d EXCEPT !.done = TRUE],
                   nd |-> [nd EXCEPT ![d.src] = r.st],
                   p  |-> r.buf]
         ELSE [d |-> d, nd |-> nd, p |-> p]
    ELSE IF ~d.done
         THEN LET r == SrcProcess(nd[d.src], d.src, d.buf)
              IN  [d  |-> [d EXCEPT !.buf = r.buf],
                   nd |-> [nd EXCEPT ![d.src] = r.st],
                   p  |-> Copy(p, r.buf)]
         ELSE [d |-> d, nd |-> nd, p |-> Copy(p, d.buf)]

\* Mutant of OutputProcess: only the evaluating call copies the scratch
\* buffer to the caller.
OutputProcessNoCopy(d, nd, p) ==
    IF Len(d.outs) = 1
    THEN IF ~d.done
         THEN LET r == SrcProcess(nd[d.src], d.src, p)
              IN  [d  |-> [d EXCEPT !.done = TRUE],
                   nd |-> [nd EXCEPT ![d.src] = r.st],
                   p  |-> r.buf]
         ELSE [d |-> d, nd |-> nd, p |-> p]
    ELSE IF ~d.done
         THEN LET r == SrcProcess(nd[d.src], d.src, d.buf)
              IN  [d  |-> [d EXCEPT !.done = TRUE, !.buf = r.buf],
                   nd |-> [nd EXCEPT ![d.src] = r.st],
                   p  |-> Copy(p, r.buf)]
         ELSE [d |-> d, nd |-> nd, p |-> p]

\* Mutant of OutputProcess: no fast path, every call goes through the
\* scratch buffer.
OutputProcessScratchOnly(d, nd, p) ==
    IF ~d.done
    THEN LET r == SrcProcess(nd[d.src], d.src, d.buf)
         IN  [d  |-> [d EXCEPT !.done = TRUE, !.buf = r.buf],
              nd |-> [nd EXCEPT ![d.src] = r.st],
              p  |-> Copy(p, r.buf)]
    ELSE [d |-> d, nd |-> nd, p |-> Copy(p, d.buf)]

\* o.Process(p) for an Output of Dup d, nd being the states of the nodes:
\* the new Dup, the new node states and the contents of p.
OutputProcess(d, nd, p) ==
    IF Len(d.outs) = 1
    THEN IF ~d.done
         THEN LET r == SrcProcess(nd[d.src], d.src, p)
              IN  [d  |-> [d EXCEPT !.done = TRUE],
                   nd |-> [nd EXCEPT ![d.src] = r.st],
                   p  |-> r.buf]
         ELSE [d |-> d, nd |-> nd, p |-> p]
    ELSE IF ~d.done
         THEN LET r == SrcProcess(nd[d.src], d.src, d.buf)
              IN  [d  |-> [d EXCEPT !.done = TRUE, !.buf = r.buf],
                   nd |-> [nd EXCEPT ![d.src] = r.st],
                   p  |-> Copy(p, r.buf)]
         ELSE [d |-> d, nd |-> nd, p |-> Copy(p, d.buf)]

\* The index of the first element of outs equal to o, 0 if there is none.
IndexOf(outs, o) ==
    IF \E i \in 1..Len(outs) : outs[i] = o
    THEN CHOOSE i \in 1..Len(outs) :
            outs[i] = o /\ \A j \in 1..(i - 1) : outs[j] # o
    ELSE 0

\* Mutant of OutputClose: the scratch buffer is released when at most one
\* Output remains.
OutputCloseFree(d, o) ==
    LET i == IndexOf(d.outs, o)
    IN  IF i = 0 THEN d
        ELSE [d EXCEPT !.outs =
                 [k \in 1..(Len(d.outs) - 1) |->
                     IF k < i THEN d.outs[k] ELSE d.outs[k + 1]],
                       !.buf = IF Len(d.outs) <= 2 THEN Nil ELSE d.buf]

\* Mutant of OutputClose: the last element of the slice is moved into the
\* place of the closed one, the elements after it are not moved up.
OutputCloseSwap(d, o) ==
    LET i == IndexOf(d.outs, o)
    IN  IF i = 0 THEN d
        ELSE [d EXCEPT !.outs =
                 [k \in 1..(Len(d.outs) - 1) |->
                     IF k = i THEN d.outs[Len(d.outs)] ELSE d.outs[k]]]

\* o.Close().
OutputClose(d, o) ==
    LET i == IndexOf(d.outs, o)
    IN  IF i = 0 THEN d
        ELSE [d EXCEPT !.outs =
                 [k \in 1..(Len(d.outs) - 1) |->
                     IF k < i THEN d.outs[k] ELSE d.outs[k + 1]]]

\* The contents a consumer's buffer can have when it is passed to Process:
\* a fresh block, or what the consumer left there computing in place.
Scribble == [i \in Idx |-> 0 - 1]

CallerBufs == {Zeros, Scribble}

(***************************************************************************)
(* State.                                                                  *)
(*   dup   the Dup                                                         *)
(*   node  the states of the nodes SetSource can bind                      *)
(*   nOut  the number of Output handles allocated so far (handles 1..nOut) *)
(*   ticks the number of Tick() calls so far                               *)
(* and, as history of the current tick (the calls since the last Tick()),  *)
(*   tk    src: the node evaluated in this tick (0: none), pulled: the     *)
(*         Outputs pulled, changed: an Output was registered or closed,    *)
(*         stray: an Output that is not registered was pulled,             *)
(*         closing: one of two or more Outputs was closed, afterClose:     *)
(*         the same in an earlier tick, begun: the tick began with Tick(), *)
(*         everTwo: two Outputs were registered at the same time, in this  *)
(*         tick or an earlier one                                          *)
(*   last  the last call: [op, o, n, done, reg, first, pre, p], o the      *)
(*         Output it was made on (for SetSource, the node passed), n, done *)
(*         and reg being len(d.outs), d.done and whether o was registered  *)
(*         when the call was made, first whether it is o's first Process   *)
(*         of the tick, pre and p the caller's buffer before and after the *)
(*         call                                                            *)
(***************************************************************************)
VARIABLES dup, node, nOut, ticks, tk, last

dupVars == <<dup, node, nOut, ticks, tk, last>>

(***************************************************************************)
(* The fan-out comparison: Dup A with two Outputs and Dup B with one, each *)
(* wrapping its own upstream node of the same kind, each Output pulled     *)
(* once per tick.  fanA and fanB are [dup, node, got, pulled, ticks]: got  *)
(* the block each Output delivered in the current tick, pulled the         *)
(* Outputs pulled in it.                                                   *)
(***************************************************************************)
VARIABLES fanA, fanB

fanVars == <<fanA, fanB>>

(***************************************************************************)
(* The registrations of a Dup: Output() and Close() calls in any order on  *)
(* up to MaxHandles handles, with Process calls on registered Outputs in   *)
(* between, in one tick.                                                   *)
(*   rdup   the Dup                                                        *)
(*   rnode  the states of the nodes                                        *)
(*   rOut   the number of Output handles allocated so far                  *)
(*   rlast  the last call: [op, o, reg, was], o the Output it was made on, *)
(*          reg whether o was registered and was the Dup when the call was *)
(*          made                                                           *)
(***************************************************************************)
VARIABLES rdup, rnode, rOut, rlast

regVars == <<rdup, rnode, rOut, rlast>>

(***************************************************************************)
(* Env.                                                                    *)
(*   env        the Env: [v, up]                                           *)
(*   envBuf     the caller's buffer after the last Process call            *)
(* and, as history,                                                        *)
(*   envScen    [started, ad, low]: Process was called; the run so far is  *)
(*              an attack/decay run (a trigger on sample 0 and on no       *)
(*              other, attack and decay rate positive on every sample);    *)
(*              the gate was at or below 0 on every sample of it           *)
(*   envHist    the output samples of the run while it is an attack/decay  *)
(*              run                                                        *)
(*   envRetrig  for the samples of the last call on which a trigger        *)
(*              occurred while Env was not attacking, at a level strictly  *)
(*              between 0 and 1 and with a positive attack rate:           *)
(*              [level, att, out]                                          *)
(***************************************************************************)
VARIABLES env, envBuf, envScen, envHist, envRetrig

envVars == <<env, envBuf, envScen, envHist, envRetrig>>

(***************************************************************************)
(* The phases of an Env.                                                   *)
(*   et       the Env: [v, up]                                             *)
(*   etPrev   the Env as the last Process call found it                    *)
(*   etSteps  the loop of the last Process call, sample by sample:         *)
(*            [pre, post, g, trig, a, d], the Env before and after the     *)
(*            sample and the gate value, trigger, attack rate and decay    *)
(*            rate of the sample                                           *)
(***************************************************************************)
VARIABLES et, etPrev, etSteps

traceVars == <<et, etPrev, etSteps>>

(***************************************************************************)
(* Square.                                                                 *)
(*   sq       the Square: [pos]                                            *)
(*   sqBuf    the caller's buffer after the last Process call              *)
(*   sqN      the number of Process calls so far                           *)
(* and, as history,                                                        *)
(*   sqConst  [ok, s]: every sample so far had pitch control value s and   *)
(*            no trigger                                                   *)
(*   sqOut    the output samples of the run while sqConst.ok               *)
(*   sqRef    the reference of the last trigger: a Square constructed at   *)
(*            the sample of the last trigger and fed the inputs from that  *)
(*            sample onward: [on, pos, from, buf], buf[from..] being its   *)
(*            output for the samples of the last call                      *)
(***************************************************************************)
VARIABLES sq, sqBuf, sqN, sqConst, sqOut, sqRef

sqVars == <<sq, sqBuf, sqN, sqConst, sqOut, sqRef>>

(***************************************************************************)
(* The phase of a Square.                                                  *)
(*   ph       the Square: [pos]                                            *)
(*   phN      the number of Process calls so far                           *)
(*   phTrace  the loop of the last Process call, sample by sample:         *)
(*            [v, s, hz, from, to], the output, the pitch control value,   *)
(*            the Hz the phase was advanced by, the phase that was         *)
(*            advanced and the phase after the wrap                        *)
(***************************************************************************)
VARIABLES ph, phN, phTrace

phVars == <<ph, phN, phTrace>>

(***************************************************************************)
(* Rand.                                                                   *)
(*   rnd       the Rand: [last]                                            *)
(*   rndBuf    the caller's buffer after the last Process call             *)
(* and, as history,                                                        *)
(*   rndPrev   the last output sample of the call before the last one      *)
(*             (the empty sequence if there was none)                      *)
(*   rndTrig   the trigger block of the last call (the empty sequence      *)
(*             before the first)                                           *)
(*   rndDraws  for the trigger samples of the last call: [lo, hi, out],    *)
(*             min[i], max[i] and the output of the sample                 *)
(***************************************************************************)
VARIABLES rnd, rndBuf, rndPrev, rndTrig, rndDraws

rndVars == <<rnd, rndBuf, rndPrev, rndTrig, rndDraws>>

(***************************************************************************)
(* Clip.                                                                   *)
(*   clipIn     the block the input node of the last Process call produced *)
(*   clipOut    the caller's buffer after the call                         *)
(*   clipAgain  the buffer after a second Clip, fed by the first           *)
(***************************************************************************)
VARIABLES clipIn, clipOut, clipAgain

clipVars == <<clipIn, clipOut, clipAgain>>

vars == <<dupVars, fanVars, regVars, envVars, traceVars, sqVars, phVars, rndVars, clipVars>>

notDup == <<fanVars, regVars, envVars, traceVars, sqVars, phVars, rndVars, clipVars>>
notFan == <<dupVars, regVars, envVars, traceVars, sqVars, phVars, rndVars, clipVars>>
notEnv == <<dupVars, fanVars, regVars, traceVars, sqVars, phVars, rndVars, clipVars>>
notSq == <<dupVars, fanVars, regVars, envVars, traceVars, phVars, rndVars, clipVars>>
notPh == <<dupVars, fanVars, regVars, envVars, traceVars, sqVars, rndVars, clipVars>>
notRnd == <<dupVars, fanVars, regVars, envVars, traceVars, sqVars, phVars, clipVars>>
notClip == <<dupVars, fanVars, regVars, envVars, traceVars, sqVars, phVars, rndVars>>
notTrace == <<dupVars, fanVars, regVars, envVars, sqVars, phVars, rndVars,
             clipVars>>
notReg == <<dupVars, fanVars, envVars, traceVars, sqVars, phVars, rndVars, clipVars>>

Registered(d) == {d.outs[i] : i \in 1..Len(d.outs)}

\* Executions of Process over the nodes of S.
RECURSIVE SumCalls(_, _)
SumCalls(nd, S) ==
    IF S = {} THEN 0
    ELSE LET n == CHOOSE x \in S : TRUE
         IN  nd[n].calls + SumCalls(nd, S \ {n})

\* Upstream evaluations since the last Tick().
Evals == SumCalls(node, Nodes)

\* The block the upstream node produced in this tick's evaluation.
TickOut == IF tk.src = 0 THEN Nil ELSE node[tk.src].out

DupInit ==
    /\ dup = NewDup(1)
    /\ node = [n \in Nodes |-> NewNode]
    /\ nOut = 0
    /\ ticks = 0
    /\ tk = [src |-> 0, pulled |-> {}, changed |-> FALSE, stray |-> FALSE,
             closing |-> FALSE, afterClose |-> FALSE, begun |-> FALSE,
             everTwo |-> FALSE]
    /\ last = [op |-> "New", o |-> 0, n |-> 0, done |-> FALSE, reg |-> FALSE,
               first |-> FALSE, pre |-> Nil, p |-> Nil]

Call(op, o) ==
    [op |-> op, o |-> o, n |-> Len(dup.outs), done |-> dup.done,
     reg |-> o \in Registered(dup), first |-> FALSE, pre |-> Nil, p |-> Nil]

Tick ==
    /\ ticks < MaxTicks
    /\ dup' = DupTick(dup)
    /\ ticks' = ticks + 1
    /\ node' = [n \in Nodes |-> [node[n] EXCEPT !.calls = 0, !.out = Nil]]
    /\ tk' = [src |-> 0, pulled |-> {}, changed |-> FALSE, stray |-> FALSE,
              closing |-> FALSE, afterClose |-> tk.afterClose \/ tk.closing,
              begun |-> TRUE, everTwo |-> tk.everTwo]
    /\ last' = Call("Tick", 0)
    /\ UNCHANGED <<nOut, notDup>>

SetSource ==
    \E n \in Nodes :
        /\ dup' = DupSetSource(dup, n)
        /\ last' = [Call("SetSource", n) EXCEPT !.reg = FALSE]
        /\ UNCHANGED <<node, nOut, ticks, tk, notDup>>

Output ==
    /\ nOut < MaxOutputs
    /\ nOut' = nOut + 1
    /\ dup' = DupOutput(dup, nOut + 1)
    /\ tk' = [tk EXCEPT !.changed = TRUE,
                        !.everTwo = @ \/ Len(dup.outs) >= 1]
    /\ last' = Call("Output", nOut + 1)
    /\ UNCHANGED <<node, ticks, notDup>>

Process ==
    \E o \in 1..nOut, p \in CallerBufs :
        LET r == OutputProcess(dup, node, p)
            ran == {n \in Nodes : r.nd[n].calls # node[n].calls}
        IN  /\ dup' = r.d
            /\ node' = r.nd
            /\ tk' = [tk EXCEPT
                        !.src = IF ran = {} THEN @ ELSE CHOOSE n \in ran : TRUE,
                        !.pulled = @ \cup {o},
                        !.stray = @ \/ o \notin Registered(dup)]
            /\ last' = [Call("Process", o) EXCEPT
                          !.first = o \notin tk.pulled, !.pre = p, !.p = r.p]
            /\ UNCHANGED <<nOut, ticks, notDup>>

Close ==
    \E o \in 1..nOut :
        /\ dup' = OutputClose(dup, o)
        /\ tk' = [tk EXCEPT !.changed = @ \/ o \in Registered(dup),
                            !.closing = @ \/ (o \in Registered(dup)
                                              /\ Len(dup.outs) >= 2)]
        /\ last' = Call("Close", o)
        /\ UNCHANGED <<node, nOut, ticks, notDup>>

DupNext == Tick \/ SetSource \/ Output \/ Process \/ Close

(***************************************************************************)
(* The fan-out comparison.                                                 *)
(***************************************************************************)
RECURSIVE WithOutputs(_, _)
\* A Dup on which Output() was called k more times after d was set up.
WithOutputs(d, k) ==
    IF k = 0 THEN d ELSE DupOutput(WithOutputs(d, k - 1), Len(d.outs) + k)

NewFan(k) ==
    [dup |-> WithOutputs(NewDup(1), k), node |-> [n \in Nodes |-> NewNode],
     got |-> [o \in 1..k |-> Nil], pulled |-> {}, ticks |-> 0]

FanInit ==
    /\ fanA = NewFan(2)
    /\ fanB = NewFan(1)

\* Output o of f is pulled with the caller's buffer p.
FanPulled(f, o, p) ==
    LET r == OutputProcess(f.dup, f.node, p)
    IN  [f EXCEPT !.dup = r.d, !.node = r.nd, !.got[o] = r.p,
                  !.pulled = @ \cup {o}]

FanTicked(f) ==
    [f EXCEPT !.dup = DupTick(f.dup), !.pulled = {}, !.ticks = @ + 1,
              !.got = [o \in DOMAIN f.got |-> Nil]]

FanDone(f) == f.pulled = Registered(f.dup)

FanPullA ==
    \E o \in Registered(fanA.dup) \ fanA.pulled, p \in CallerBufs :
        /\ fanA' = FanPulled(fanA, o, p)
        /\ UNCHANGED <<fanB, notFan>>

FanPullB ==
    \E o \in Registered(fanB.dup) \ fanB.pulled, p \in CallerBufs :
        /\ fanB' = FanPulled(fanB, o, p)
        /\ UNCHANGED <<fanA, notFan>>

FanTickA ==
    /\ FanDone(fanA)
    /\ fanA.ticks < MaxFanTicks
    /\ fanA' = FanTicked(fanA)
    /\ UNCHANGED <<fanB, notFan>>

FanTickB ==
    /\ FanDone(fanB)
    /\ fanB.ticks < MaxFanTicks
    /\ fanB' = FanTicked(fanB)
    /\ UNCHANGED <<fanA, notFan>>

FanNext == FanPullA \/ FanPullB \/ FanTickA \/ FanTickB

(***************************************************************************)
(* The registrations of a Dup.                                             *)
(***************************************************************************)
RegInit ==
    /\ rdup = NewDup(1)
    /\ rnode = [n \in Nodes |-> NewNode]
    /\ rOut = 0
    /\ rlast = [op |-> "New", o |-> 0, reg |-> FALSE, was |-> NewDup(1)]

RegCall(op, o) ==
    [op |-> op, o |-> o, reg |-> o \in Registered(rdup), was |-> rdup]

RegOutput ==
    /\ rOut < MaxHandles
    /\ rOut' = rOut + 1
    /\ rdup' = DupOutput(rdup, rOut + 1)
    /\ rlast' = RegCall("Output", rOut + 1)
    /\ UNCHANGED <<rnode, notReg>>

RegProcess ==
    \E o \in Registered(rdup) :
        LET r == OutputProcess(rdup, rnode, Zeros)
        IN  /\ rdup' = r.d
            /\ rnode' = r.nd
            /\ rlast' = RegCall("Process", o)
            /\ UNCHANGED <<rOut, notReg>>

RegClose ==
    \E o \in 1..rOut :
        /\ rdup' = OutputClose(rdup, o)
        /\ rlast' = RegCall("Close", o)
        /\ UNCHANGED <<rnode, rOut, notReg>>

RegNext == RegOutput \/ RegProcess \/ RegClose

(***************************************************************************)
(* Env (proc.go, lines 144-190).                                           *)
(*                                                                         *)
(* Levels and gate values are integers in units of 1/Unit.  A rate control *)
(* value r stands for the sample r / (waveHz * 10), so that the step       *)
(* 1 / (r * waveHz * 10) of the program is 1/r, Unit \div r on the grid.   *)
(* A trigger buffer holds, for each sample, what isTrigger says of it.     *)
(* The rate inputs are driven by Value nodes, constant over a block.       *)
(***************************************************************************)
\* Value(v).Process(s): the contents of s.
ValueProcess(v, s) == [i \in 1..Len(s) |-> v]

GateVals == {0, Unit \div 2, Unit}

AttVals == {0, 2, 3}

DecVals == {0, 2}

\* 1 / (r * waveHz * 10)
RateStep(r) == Unit \div r

NewEnv == [v |-> 0, up |-> FALSE]

\* Mutant of EnvSample: the level is not clamped at 0.
EnvSampleNoFloor(e, g, trig, a, d) ==
    LET attack == ~e.up /\ (trig \/ e.v < g)
        up1 == e.up \/ attack
        v1 == IF ~e.up /\ ~attack /\ e.v > g /\ d > 0
              THEN e.v - RateStep(d) ELSE e.v
        v2 == IF up1 /\ a > 0 THEN v1 + RateStep(a) ELSE v1
    IN  IF v2 > Unit THEN [v |-> Unit, up |-> FALSE]
        ELSE [v |-> v2, up |-> up1]

\* Mutant of EnvSample: the clamp at 1 does not end the attack.
EnvSampleHoldPeak(e, g, trig, a, d) ==
    LET attack == ~e.up /\ (trig \/ e.v < g)
        up1 == e.up \/ attack
        v1 == IF ~e.up /\ ~attack /\ e.v > g /\ d > 0
              THEN e.v - RateStep(d) ELSE e.v
        v2 == IF up1 /\ a > 0 THEN v1 + RateStep(a) ELSE v1
    IN  IF v2 > Unit THEN [v |-> Unit, up |-> up1]
        ELSE IF v2 < 0 THEN [v |-> 0, up |-> up1]
        ELSE [v |-> v2, up |-> up1]

\* Mutant of EnvSample: a trigger restarts the attack from level 0.
EnvSampleRestart(e, g, trig, a, d) ==
    LET attack == ~e.up /\ (trig \/ e.v < g)
        up1 == e.up \/ attack
        v0 == IF ~e.up /\ trig THEN 0 ELSE e.v
        v1 == IF ~e.up /\ ~attack /\ e.v > g /\ d > 0
              THEN e.v - RateStep(d) ELSE v0
        v2 == IF up1 /\ a > 0 THEN v1 + RateStep(a) ELSE v1
    IN  IF v2 > Unit THEN [v |-> Unit, up |-> FALSE]
        ELSE IF v2 < 0 THEN [v |-> 0, up |-> up1]
        ELSE [v |-> v2, up |-> up1]

\* Mutant of EnvSample: the decay step is taken during the attack as well.
EnvSampleDecayInAttack(e, g, trig, a, d) ==
    LET attack == ~e.up /\ (trig \/ e.v < g)
        up1 == e.up \/ attack
        v1 == IF ~attack /\ e.v > g /\ d > 0
              THEN e.v - RateStep(d) ELSE e.v
        v2 == IF up1 /\ a > 0 THEN v1 + RateStep(a) ELSE v1
    IN  IF v2 > Unit THEN [v |-> Unit, up |-> FALSE]
        ELSE IF v2 < 0 THEN [v |-> 0, up |-> up1]
        ELSE [v |-> v2, up |-> up1]

\* One pass of the loop of Env.Process: Env e, gate value g, trigger trig,
\* attack rate a and decay rate d of the sample.
EnvSample(e, g, trig, a, d) ==
    LET attack == ~e.up /\ (trig \/ e.v < g)
        up1 == e.up \/ attack
        v1 == IF ~e.up /\ ~attack /\ e.v > g /\ d > 0
              THEN e.v - RateStep(d) ELSE e.v
        v2 == IF up1 /\ a > 0 THEN v1 + RateStep(a) ELSE v1
    IN  IF v2 > Unit THEN [v |-> Unit, up |-> FALSE]
        ELSE IF v2 < 0 THEN [v |-> 0, up |-> up1]
        ELSE [v |-> v2, up |-> up1]

RECURSIVE EnvLoop(_, _, _, _, _, _, _)
\* The loop of Env.Process from sample i on; pre collects the Env as each
\* sample finds it.
EnvLoop(e, s, att, dec, t, pre, i) ==
    IF i > Len(s) THEN [e |-> e, s |-> s, pre |-> pre]
    ELSE LET r == EnvSample(e, s[i], t[i], att[i], dec[i])
         IN  EnvLoop(r, [s EXCEPT ![i] = r.v], att, dec, t,
                     Append(pre, e), i + 1)

\* e.Process(s), s holding the gate's block and att, dec, t the blocks of
\* the other inputs: the new Env and the contents of s.
EnvProcess(e, s, att, dec, t) == EnvLoop(e, s, att, dec, t, <<>>, 1)

EnvInit ==
    /\ env = NewEnv
    /\ envBuf = Zeros
    /\ envScen = [started |-> FALSE, ad |-> FALSE, low |-> FALSE]
    /\ envHist = <<>>
    /\ envRetrig = {}

EnvCall ==
    \E s \in [Idx -> GateVals], a \in AttVals, d \in DecVals,
       t \in [Idx -> BOOLEAN] :
      \E att \in {ValueProcess(a, Zeros)}, dec \in {ValueProcess(d, Zeros)} :
      \E r \in {EnvProcess(env, s, att, dec, t)} :
        LET first == ~envScen.started
            ad == /\ first \/ envScen.ad
                  /\ \A i \in Idx : t[i] <=> (first /\ i = 1)
                  /\ \A i \in Idx : att[i] > 0 /\ dec[i] > 0
            low == /\ ad
                   /\ first \/ envScen.low
                   /\ \A i \in Idx : s[i] <= 0
        IN  /\ Len(envHist) < MaxEnvSamples
            /\ env' = r.e
            /\ envBuf' = r.s
            /\ envScen' = [started |-> TRUE, ad |-> ad, low |-> low]
            /\ envHist' = IF ad THEN envHist \o r.s ELSE <<>>
            /\ envRetrig' =
                 {[level |-> r.pre[i].v, att |-> att[i], out |-> r.s[i]] :
                    i \in {j \in Idx : /\ t[j] /\ ~r.pre[j].up
                                       /\ r.pre[j].v > 0
                                       /\ r.pre[j].v < Unit
                                       /\ att[j] > 0}}
            /\ UNCHANGED notEnv

EnvNext == EnvCall

(***************************************************************************)
(* The phases of an Env, sample by sample.                                 *)
(***************************************************************************)
TraceGateVals == {0, Unit \div 2}

TraceInit ==
    /\ et = NewEnv
    /\ etPrev = NewEnv
    /\ etSteps = <<>>

TraceCall ==
    \E s \in [Idx -> TraceGateVals], a \in AttVals, d \in DecVals,
       t \in [Idx -> BOOLEAN] :
      \E att \in {ValueProcess(a, Zeros)}, dec \in {ValueProcess(d, Zeros)} :
      \E r \in {EnvProcess(et, s, att, dec, t)} :
        /\ et' = r.e
        /\ etPrev' = et
        /\ etSteps' = [i \in Idx |->
                         [pre |-> r.pre[i],
                          post |-> IF i < nSamples THEN r.pre[i + 1] ELSE r.e,
                          g |-> s[i], trig |-> t[i],
                          a |-> att[i], d |-> dec[i]]]
        /\ UNCHANGED notTrace

TraceNext == TraceCall

(***************************************************************************)
(* Square (proc.go, lines 26-67).                                          *)
(*                                                                         *)
(* A pitch control value s stands for the sample s / 10, s octaves above   *)
(* 440 Hz.  Phases and frequencies are integers in Hz.  The output buffer  *)
(* is the pitch buffer of the program, overwritten sample by sample.       *)
(***************************************************************************)
PitchVals == {1, 2, 3}

\* 440 * 2^(10 * s / 10)
sampleToHz(s) == IF s >= 0 THEN 440 * 2^s ELSE 440 \div 2^(0 - s)

NewSquare == [pos |-> 0]

RECURSIVE SquareLoop(_, _, _, _, _, _, _)
\* The loop of Square.Process from sample i on: p, hz and lastS as the
\* program names them, out the samples written so far, each with the
\* control value of the sample, the Hz the phase was advanced by, the phase
\* that was advanced and the phase after the wrap: [v, s, hz, from, to].
SquareLoop(p, hz, lastS, s, t, out, i) ==
    IF i > Len(s)
    THEN [pos |-> p, s |-> [k \in 1..Len(out) |-> out[k].v], tr |-> out]
    ELSE LET p1 == IF t[i] THEN 0 ELSE p
             hz1 == IF s[i] # lastS THEN sampleToHz(s[i]) ELSE hz
             p2 == p1 + hz1
             p3 == IF p2 > waveHz THEN p2 - waveHz ELSE p2
             v == IF p3 > waveHz \div 2 THEN 0 - 1 ELSE 1
             x == [v |-> v, s |-> s[i], hz |-> hz1, from |-> p1, to |-> p3]
         IN  SquareLoop(p3, hz1, lastS, s, t, Append(out, x), i + 1)

\* Mutant of SquareProcess: the phase is not stored back.
SquareProcessNoStore(o, s, t) ==
    LET r == SquareLoop(o.pos, sampleToHz(s[1]), s[1], s, t, <<>>, 1)
    IN  [o |-> o, s |-> r.s, tr |-> r.tr]

\* o.Process(s), s holding the pitch block and t the trigger block: the new
\* Square, the contents of s and the trace of the loop.
SquareProcess(o, s, t) ==
    LET r == SquareLoop(o.pos, sampleToHz(s[1]), s[1], s, t, <<>>, 1)
    IN  [o |-> [o EXCEPT !.pos = r.pos], s |-> r.s, tr |-> r.tr]

\* The last sample of the block with a trigger, 0 if there is none.
LastTrigger(t) ==
    IF \E i \in 1..Len(t) : t[i]
    THEN CHOOSE i \in 1..Len(t) : t[i] /\ \A j \in (i + 1)..Len(t) : ~t[j]
    ELSE 0

SqInit ==
    /\ sq = NewSquare
    /\ sqBuf = Zeros
    /\ sqN = 0
    /\ sqConst = [ok |-> FALSE, s |-> 0]
    /\ sqOut = <<>>
    /\ sqRef = [on |-> FALSE, pos |-> 0, from |-> 0, buf |-> Zeros]

SqCall ==
    \E s \in [Idx -> PitchVals], t \in [Idx -> BOOLEAN] :
        LET r == SquareProcess(sq, s, t)
            c == IF sqN = 0 THEN s[1] ELSE sqConst.s
            ok == /\ sqN = 0 \/ sqConst.ok
                  /\ \A i \in Idx : s[i] = c /\ ~t[i]
            k == LastTrigger(t)
            \* the reference: constructed at sample k, or carried on
            ref == IF k > 0
                   THEN SquareProcess(NewSquare, SubSeq(s, k, nSamples),
                                      SubSeq(t, k, nSamples))
                   ELSE SquareProcess([pos |-> sqRef.pos], s, t)
            from == IF k > 0 THEN k ELSE 1
        IN  /\ sqN < MaxSqCalls
            /\ sq' = r.o
            /\ sqBuf' = r.s
            /\ sqN' = sqN + 1
            /\ sqConst' = [ok |-> ok, s |-> IF ok THEN c ELSE 0]
            /\ sqOut' = IF ok THEN sqOut \o r.s ELSE <<>>
            /\ sqRef' = IF k > 0 \/ sqRef.on
                        THEN [on |-> TRUE, pos |-> ref.o.pos, from |-> from,
                              buf |-> [i \in Idx |->
                                         IF i < from THEN 0
                                         ELSE ref.s[i - from + 1]]]
                        ELSE sqRef
            /\ UNCHANGED notSq

SqNext == SqCall

(***************************************************************************)
(* The phase of a Square, sample by sample, over a wider range of pitches  *)
(* (up to one octave above the sample rate) that change within a block.    *)
(***************************************************************************)
WidePitchVals == PitchVals \cup {4}

\* No trigger, or one on the second sample of the block.
PhaseTrigs == {[i \in Idx |-> FALSE], [i \in Idx |-> i = 2]}

PhaseInit ==
    /\ ph = NewSquare
    /\ phN = 0
    /\ phTrace = <<>>

PhaseCall ==
    \E s \in [Idx -> WidePitchVals], t \in PhaseTrigs :
      \E r \in {SquareProcess(ph, s, t)} :
        /\ phN < MaxSqCalls
        /\ ph' = r.o
        /\ phN' = phN + 1
        /\ phTrace' = r.tr
        /\ UNCHANGED notPh

PhaseNext == PhaseCall

(***************************************************************************)
(* Rand (proc.go, lines 222-248).                                          *)
(*                                                                         *)
(* Values are integers; the values of min and max are multiples of         *)
(* RandDen, so that min + f/RandDen * (max - min) is on the grid.  The     *)
(* block f holds, for each trigger sample, the numerator of the value      *)
(* rand.Float64() returns there.                                           *)
(***************************************************************************)
MinVals == {0, RandDen}

MaxVals == {0, RandDen, 2 * RandDen}

Fracs == 0..(RandDen - 1)

NewRand == [last |-> 0]

\* s[i] + Sample(rand.Float64())*(max[i]-s[i])
RandDraw(lo, hi, f) == lo + (f * (hi - lo)) \div RandDen

RECURSIVE RandLoop(_, _, _, _, _, _)
\* The loop of Rand.Process from sample i on.
RandLoop(v, s, max, t, f, i) ==
    IF i > Len(s) THEN [last |-> v, s |-> s]
    ELSE LET v1 == IF t[i] THEN RandDraw(s[i], max[i], f[i]) ELSE v
         IN  RandLoop(v1, [s EXCEPT ![i] = v1], max, t, f, i + 1)

\* Mutant of RandProcess: the latched value is not stored back.
RandProcessNoStore(r, s, max, t, f) ==
    LET x == RandLoop(r.last, s, max, t, f, 1)
    IN  [r |-> r, s |-> x.s]

\* r.Process(s), s holding the block of min, max and t the blocks of the
\* other inputs: the new Rand and the contents of s.
RandProcess(r, s, max, t, f) ==
    LET x == RandLoop(r.last, s, max, t, f, 1)
    IN  [r |-> [r EXCEPT !.last = x.last], s |-> x.s]

RandInit ==
    /\ rnd = NewRand
    /\ rndBuf = Zeros
    /\ rndPrev = <<>>
    /\ rndTrig = <<>>
    /\ rndDraws = {}

RandCall ==
    \E s \in [Idx -> MinVals], mx \in MaxVals, t \in [Idx -> BOOLEAN] :
      \E f \in {g \in [Idx -> Fracs] : \A i \in Idx : ~t[i] => g[i] = 0} :
      \E max \in {ValueProcess(mx, Zeros)} :
      \E r \in {RandProcess(rnd, s, max, t, f)} :
        /\ rnd' = r.r
        /\ rndBuf' = r.s
        /\ rndPrev' = IF rndTrig = <<>> THEN <<>> ELSE <<rndBuf[nSamples]>>
        /\ rndTrig' = t
        /\ rndDraws' = {[lo |-> s[i], hi |-> max[i], out |-> r.s[i]] :
                          i \in {j \in Idx : t[j]}}
        /\ UNCHANGED notRnd

RandNext == RandCall

(***************************************************************************)
(* Clip (proc.go, lines 192-212).  Samples are integers in units of        *)
(* 1/Unit.                                                                 *)
(***************************************************************************)
ClipVals == {0 - Unit - 2, 0 - Unit - 1, 0 - Unit, 0 - 1, 0, 1, Unit, Unit + 1}

\* Mutant of ClipSample: values below -1 pass.
ClipSampleNoLow(v) == IF v > Unit THEN Unit ELSE v

\* One pass of the loop of Clip.Process: the value of s[i] after it.
ClipSample(v) ==
    IF v > Unit THEN Unit
    ELSE IF v < 0 - Unit THEN 0 - Unit
    ELSE v

\* c.Process(s), s holding the block of the input: the contents of s.
ClipProcess(s) == [i \in 1..Len(s) |-> ClipSample(s[i])]

ClipInit ==
    /\ clipIn = Zeros
    /\ clipOut = Zeros
    /\ clipAgain = Zeros

ClipCall ==
    \E s \in [Idx -> ClipVals] :
        /\ clipIn' = s
        /\ clipOut' = ClipProcess(s)
        /\ clipAgain' = ClipProcess(ClipProcess(s))
        /\ UNCHANGED notClip

ClipNext == ClipCall

(***************************************************************************)
(* Specifications.                                                         *)
(***************************************************************************)
Init == DupInit /\ FanInit /\ RegInit /\ EnvInit /\ TraceInit /\ SqInit /\ PhaseInit /\ RandInit /\ ClipInit

SpecDup == Init /\ [][DupNext]_vars

SpecFan == Init /\ [][FanNext]_vars

SpecReg == Init /\ [][RegNext]_vars

SpecEnv == Init /\ [][EnvNext]_vars

SpecTrace == Init /\ [][TraceNext]_vars

SpecSquare == Init /\ [][SqNext]_vars

SpecPhase == Init /\ [][PhaseNext]_vars

SpecRand == Init /\ [][RandNext]_vars

SpecClip == Init /\ [][ClipNext]_vars

(***************************************************************************)
(* Claims on Dup and Output.                                               *)
(***************************************************************************)
\* C1: between two consecutive Tick() calls the upstream node's Process is
\* executed at most once, whatever Process, Output(), Close() and
\* SetSource() calls are made in between.
C1_AtMostOncePerTick == Evals <= 1

\* The upstream was evaluated, the source was rebound and the set of Outputs
\* changed in this tick, and a later Process call found the flag set.
C1_Witness ==
    /\ Evals = 1
    /\ last.op = "Process" /\ last.done
    /\ tk.changed
    /\ dup.src # tk.src
    /\ Cardinality(tk.pulled) >= 2

\* C2: with two or more Outputs registered and no Output registered or
\* closed during the tick, every Process call of the tick leaves the
\* caller's buffer equal to the block the upstream node produced in the one
\* evaluation of the tick, and the scratch buffer holds that block.
C2_EveryCallDeliversTickBlock ==
    (last.op = "Process" /\ last.n >= 2 /\ ~tk.changed) =>
        /\ Evals = 1
        /\ Len(TickOut) = nSamples
        /\ last.p = TickOut
        /\ dup.buf = TickOut

\* A repeated call on one Output, after the flag was set, with a buffer
\* the consumer had overwritten.
C2_Witness ==
    /\ last.op = "Process" /\ last.n >= 2 /\ ~tk.changed
    /\ ~last.first /\ last.done
    /\ last.pre = Scribble

C5_SingleOutputStep ==
    (last'.op = "Process" /\ last'.n = 1) =>
        /\ dup'.buf = dup.buf
        /\ IF tk.pulled = {}
           THEN /\ SumCalls(node', Nodes) = 1
                /\ tk'.src = dup.src
                /\ Len(last'.p) = nSamples
                /\ last'.p = node'[dup.src].out
           ELSE /\ last'.p = last'.pre
                /\ node' = node

C5_SingleOutputFrame == [][C5_SingleOutputStep]_vars

\* A further call in a tick, with the scratch buffer allocated and the
\* caller's buffer overwritten since the first call.
C5_Witness ==
    /\ last.op = "Process" /\ last.n = 1
    /\ last.done /\ ~last.first
    /\ last.pre = Scribble /\ last.p = Scribble
    /\ dup.buf # Nil

\* C3: a Dup with two Outputs, each pulled once per tick, leaves its
\* upstream node in the same accumulator state and delivers the same
\* blocks as a Dup with one Output pulled once per tick.
C3_TwoOutputsAsOne ==
    (fanA.ticks = fanB.ticks /\ FanDone(fanA) /\ FanDone(fanB)) =>
        /\ fanA.node = fanB.node
        /\ \A o \in Registered(fanA.dup) :
              /\ Len(fanA.got[o]) = nSamples
              /\ fanA.got[o] = fanB.got[1]

\* Both Dups have been pulled through their last tick.
C3_Witness ==
    /\ fanA.ticks = MaxFanTicks /\ fanB.ticks = MaxFanTicks
    /\ FanDone(fanA) /\ FanDone(fanB)
    /\ fanA.node[1].acc = nSamples * (MaxFanTicks + 1)

\* C13: Tick() clears the flag and changes nothing else of the Dup; the
\* first Process call after a Tick() evaluates the upstream node, so that a
\* tick in which Process is called has exactly one evaluation; and a
\* Process call that is not the first since the Tick() evaluates nothing.
C13_TickStep ==
    /\ last'.op = "Tick" =>
          /\ ~dup'.done
          /\ dup'.src = dup.src /\ dup'.outs = dup.outs /\ dup'.buf = dup.buf
    /\ last'.op = "Process" =>
          IF tk.pulled = {}
          THEN SumCalls(node, Nodes) = 0 /\ SumCalls(node', Nodes) = 1
          ELSE node' = node
    /\ tk'.pulled # {} => SumCalls(node', Nodes) = 1

C13_TickFrame == [][C13_TickStep]_vars

\* In a tick begun by Tick() with the flag set before it, two Outputs were
\* pulled and the second pull found the flag set again.
C13_Witness ==
    /\ tk.begun /\ ticks = MaxTicks
    /\ node[dup.src].acc = 2 * nSamples
    /\ last.op = "Process" /\ last.done /\ last.first
    /\ Evals = 1

\* C17: with more than one Output registered the scratch buffer is
\* allocated with length nSamples; it is not allocated while no two Outputs
\* have been registered at the same time; once allocated it stays allocated
\* with that length, and no call but Process changes its contents.
C17_ScratchStep ==
    /\ Len(dup'.outs) > 1 => Len(dup'.buf) = nSamples
    /\ ~tk'.everTwo => dup'.buf = Nil
    /\ dup.buf # Nil =>
          /\ Len(dup'.buf) = nSamples
          /\ last'.op # "Process" => dup'.buf = dup.buf

C18_CloseFrame ==
    rlast.op = "Close" =>
        /\ rdup.src = rlast.was.src /\ rdup.done = rlast.was.done
        /\ rdup.buf = rlast.was.buf
        /\ rdup.outs = SelectSeq(rlast.was.outs, LAMBDA x : x # rlast.o)
        /\ Registered(rdup) = Registered(rlast.was) \ {rlast.o}
        /\ ~rlast.reg => rdup = rlast.was

\* The first of three registered Outputs was closed, after an evaluation
\* through the scratch buffer.
C18_Witness ==
    /\ rlast.op = "Close" /\ rlast.reg
    /\ Len(rlast.was.outs) = 3 /\ rlast.was.outs[1] = rlast.o
    /\ Len(rdup.outs) = 2
    /\ rdup.done /\ rdup.buf # Nil /\ rdup.buf # Zeros

\* C19: SetSource(n) sets the source to n and changes nothing else; an
\* upstream evaluation made by a Process call is an evaluation of the
\* source bound when the call is made; once a node was evaluated in a tick,
\* no node is evaluated before the next Tick().
C19_SetSourceStep ==
    /\ last'.op = "SetSource" =>
          /\ dup'.src = last'.o
          /\ dup'.outs = dup.outs /\ dup'.done = dup.done
          /\ dup'.buf = dup.buf
          /\ node' = node
    /\ last'.op = "Process" =>
          \A n \in Nodes : node'[n] # node[n] => n = dup.src
    /\ (last'.op # "Tick" /\ tk.src # 0) => node' = node

C19_SetSourceFrame == [][C19_SetSourceStep]_vars

\* The source was rebound after an evaluation, not evaluated in that tick,
\* and evaluated by the first Process call of the next tick.
C19_Witness ==
    /\ last.op = "Process" /\ ~last.done
    /\ tk.begun /\ tk.src = 2 /\ dup.src = 2
    /\ node[2].calls = 1 /\ node[2].acc = nSamples
    /\ node[1].calls = 0 /\ node[1].acc = nSamples

\* C20: the first Process call of a tick on an Output registered when it is
\* called leaves the caller's buffer equal to the block the upstream node
\* produced in the tick, also when Outputs were registered or closed
\* between the Process calls of the tick.
C20_FirstPullDeliversTickBlock ==
    (last.op = "Process" /\ last.first /\ last.reg /\ ~tk.stray) =>
        /\ Len(TickOut) = nSamples
        /\ last.p = TickOut

(***************************************************************************)
(* Claims on Env.                                                          *)
(***************************************************************************)
\* C6: whatever the gate, trigger, attack-rate and decay-rate inputs of any
\* number of Process calls, every sample Env outputs and the level it
\* stores between calls lie in [0, 1].
C6_LevelInUnitRange ==
    /\ env.v >= 0 /\ env.v <= Unit
    /\ \A i \in Idx : envBuf[i] >= 0 /\ envBuf[i] <= Unit

\* A decay step from a level smaller than the step, clamped at 0.
C6_Witness ==
    \E i \in 1..(nSamples - 1) :
        /\ envBuf[i] > 0 /\ envBuf[i] < RateStep(2)
        /\ envBuf[i + 1] = 0

\* At most two samples next to each other are at the peak.
PeakOnce(h, i) == h[i] = Unit /\ h[i - 1] = Unit /\ (i = 2 \/ h[i - 2] < Unit)

\* The level before sample i of history h of a run that began at level 0.
Prev(h, i) == IF i = 1 THEN 0 ELSE h[i - 1]

Peaked(h, i) == \E j \in 1..(i - 1) : h[j] = Unit

\* C7 as stated: in an attack/decay run from level 0 the level strictly
\* increases sample by sample until it reaches 1, and from the sample after
\* it reached 1 it strictly decreases on every sample until it is 0.
C7_RiseThenFall ==
    envScen.ad =>
        \A i \in 1..Len(envHist) :
            IF Peaked(envHist, i)
            THEN \/ envHist[i] < Prev(envHist, i)
                 \/ Prev(envHist, i) = 0 /\ envHist[i] = 0
            ELSE envHist[i] > Prev(envHist, i)

\* C7, amended: in an attack/decay run from level 0 whose gate is at or
\* below 0 on every sample, the level strictly increases sample by sample
\* until it reaches 1, stays at 1 for at most one more sample, and then
\* strictly decreases on every sample until it is 0.
C7_RiseThenFallGateLow ==
    (envScen.ad /\ envScen.low) =>
        \A i \in 1..Len(envHist) :
            IF Peaked(envHist, i)
            THEN \/ envHist[i] < Prev(envHist, i)
                 \/ Prev(envHist, i) = 0 /\ envHist[i] = 0
                 \/ PeakOnce(envHist, i)
            ELSE envHist[i] > Prev(envHist, i)

\* A run with the gate low that rose to the peak and fell back to 0.
C7_Witness ==
    /\ envScen.ad /\ envScen.low
    /\ \E i \in 1..Len(envHist) : envHist[i] = Unit
    /\ Len(envHist) > nSamples
    /\ envHist[Len(envHist)] = 0

\* C8: a trigger on a sample on which Env is not attacking and its level L
\* is strictly between 0 and 1, with attack rate a > 0, gives the output
\* L + 1/(a*waveHz*10), clamped to 1, on that sample.
C8_RetriggerFromLevel ==
    \A r \in envRetrig :
        r.out = IF r.level + RateStep(r.att) > Unit THEN Unit
                ELSE r.level + RateStep(r.att)

\* A trigger during decay, from which the attack goes on below the peak.
C8_Witness ==
    \E r \in envRetrig : r.out > r.level /\ r.out < Unit

\* The level v plus x, clamped to [0, 1].
Clamped(v, x) ==
    IF v + x > Unit THEN Unit ELSE IF v + x < 0 THEN 0 ELSE v + x

\* C16: Env enters the attack phase only on a sample on which it is not
\* attacking and a trigger occurs or the gate exceeds the level; it leaves
\* the attack phase only on a sample on which the level exceeds 1 and is
\* clamped to 1; on one sample the level gets at most one of the decay step
\* and the attack step; each sample and each Process call begins with the
\* attack flag and the level as the one before left them.
C16_AttackPhase ==
    /\ \A i \in DOMAIN etSteps :
          LET x == etSteps[i]
          IN  /\ (~x.pre.up /\ (x.post.up \/ x.post.v > x.pre.v)) =>
                    (x.trig \/ x.g > x.pre.v)
              /\ (x.pre.up /\ ~x.post.up) =>
                    /\ x.a > 0
                    /\ x.pre.v + RateStep(x.a) > Unit
                    /\ x.post.v = Unit
              /\ \/ x.post.v = x.pre.v
                 \/ x.a > 0 /\ x.post.v = Clamped(x.pre.v, RateStep(x.a))
                 \/ x.d > 0 /\ x.post.v = Clamped(x.pre.v, 0 - RateStep(x.d))
              /\ x.pre = IF i = 1 THEN etPrev ELSE etSteps[i - 1].post
    /\ etSteps # <<>> => et = etSteps[nSamples].post

\* A call that found Env attacking, left the attack at the peak, decayed
\* and entered the attack again on a trigger.
C16_Witness ==
    /\ etSteps # <<>>
    /\ etPrev.up
    /\ \E i, j \in Idx :
          /\ i < j
          /\ etSteps[i].pre.up /\ ~etSteps[i].post.up
          /\ ~etSteps[j].pre.up /\ etSteps[j].post.up /\ etSteps[j].trig
          /\ etSteps[j].g < etSteps[j].pre.v

(***************************************************************************)
(* Claims on Square.                                                       *)
(***************************************************************************)
\* C9: with a constant pitch and no trigger every output sample is +1 or
\* -1, and when waveHz / hz is a whole number the output repeats with that
\* period, over any number of Process calls.
C9_SquarePeriod ==
    sqConst.ok =>
        LET hz == sampleToHz(sqConst.s)
            n == waveHz \div hz
        IN  /\ \A i \in 1..Len(sqOut) : sqOut[i] \in {1, 0 - 1}
            /\ (waveHz % hz = 0) =>
                  \A i \in 1..(Len(sqOut) - n) : sqOut[i + n] = sqOut[i]

\* Two periods of a pitch whose period spans more than one block and in
\* which the output takes both values.
C9_Witness ==
    /\ sqConst.ok
    /\ waveHz \div sampleToHz(sqConst.s) > nSamples
    /\ waveHz % sampleToHz(sqConst.s) = 0
    /\ Len(sqOut) >= 2 * (waveHz \div sampleToHz(sqConst.s))
    /\ \E i, j \in 1..Len(sqOut) : sqOut[i] # sqOut[j]

\* C10: from the sample of a trigger onward the outputs are those of a
\* freshly constructed Square fed the same inputs from that sample onward.
C10_TriggerRestarts ==
    sqRef.on => \A i \in sqRef.from..nSamples : sqBuf[i] = sqRef.buf[i]

\* C14: on every sample the phase is advanced by the pitch conversion of
\* the control value of that sample.
C14_AdvanceIsPitchOfSample ==
    \A i \in DOMAIN phTrace : phTrace[i].hz = sampleToHz(phTrace[i].s)

\* C15: after every sample the phase is the phase before it plus Hz, reduced
\* modulo waveHz, and the stored phase lies in [0, waveHz].
C15_PhaseWithinPeriod ==
    /\ ph.pos >= 0 /\ ph.pos <= waveHz
    /\ \A i \in DOMAIN phTrace :
          /\ phTrace[i].to >= 0 /\ phTrace[i].to <= waveHz
          /\ (phTrace[i].from + phTrace[i].hz - phTrace[i].to) % waveHz = 0

(***************************************************************************)
(* Claims on Rand and Clip.                                                *)
(***************************************************************************)
\* C11: on a sample without a trigger the output of Rand equals the output
\* of the sample before it, also when that sample is the last of the
\* previous Process call; and the output of a trigger sample i with
\* min[i] < max[i] lies in [min[i], max[i]).
C11_HoldBetweenTriggers ==
    /\ \A i \in DOMAIN rndTrig :
          ~rndTrig[i] =>
              IF i > 1 THEN rndBuf[i] = rndBuf[i - 1]
              ELSE rndPrev # <<>> => rndBuf[i] = rndPrev[1]
    /\ \A d \in rndDraws : d.lo < d.hi => d.lo <= d.out /\ d.out < d.hi

\* A value drawn in an earlier call is held over the boundary, and a later
\* sample of the call draws a value above min.
C11_Witness ==
    /\ rndPrev # <<>> /\ rndPrev[1] # 0
    /\ rndTrig # <<>> /\ ~rndTrig[1] /\ rndBuf[1] = rndPrev[1]
    /\ \E d \in rndDraws : d.lo < d.out /\ d.out < d.hi

\* C12: every output sample of Clip lies in [-1, 1], equals the input
\* sample when that lies in [-1, 1], and a second Clip fed by the first
\* outputs what the first does.
C12_ClipRange ==
    /\ \A i \in Idx : clipOut[i] >= 0 - Unit /\ clipOut[i] <= Unit
    /\ \A i \in Idx :
          (clipIn[i] >= 0 - Unit /\ clipIn[i] <= Unit) => clipOut[i] = clipIn[i]
    /\ clipAgain = clipOut

\* A block with a sample above 1, a sample below -1 and a sample strictly
\* inside the range.
C12_Witness ==
    /\ \E i \in Idx : clipIn[i] > Unit /\ clipOut[i] = Unit
    /\ \E i \in Idx : clipIn[i] < 0 - Unit /\ clipOut[i] = 0 - Unit
    /\ \E i \in Idx : clipIn[i] # 0 /\ clipIn[i] > 0 - Unit /\ clipIn[i] < Unit

=============================================================================
